---- MODULE Spec2Model ----
(***************************************************************************)
(* Model of the event-sourced orchestration engine of voice-computer-use:  *)
(*   computer_use_demo/state.py  - the event log (State.demo_events), the   *)
(*       worker cursor / running flag / result queue, group_tool_messages  *)
(*       and to_beta_message_param (the context serializer);               *)
(*   computer_use_demo/loop.py   - run_worker (the cursor interpreter),     *)
(*       process_computer_use_event (the owner's outcome handler),         *)
(*       phone_anthropic and _maybe_filter_to_n_most_recent_images.        *)
(* The owning thread's scheduling and drain steps follow the design        *)
(* document (spec.md sections 2, 4.4, 4.5 and 4.6).                        *)
(***************************************************************************)
EXTENDS Integers, Sequences, FiniteSets, TLC

\* ------------------------------------------------------------------ bounds
MaxInputs == 2      \* user inputs appended during a session
MaxModelBlocks == 1 \* content blocks the model backend returns in a session
MaxFails == 1       \* steps that raise (and set-ups that raise) in a session
MaxSerLen == 4      \* events in a sequence handed to the serializer
MaxPruneLen == 3    \* messages in a list handed to the image filter
MaxInbound == 2     \* inbound events the voice component delivers
MaxRenders == 2     \* renders of the voice chat in a session
MaxApplyBlocks == 3 \* content blocks of one response handed to the handler
MaxReruns == 2      \* re-entries of the render loop in a session

\* ------------------------------------------------------------------ values
\* tools.ToolResult: output / error / base64_image / system; 0 stands for
\* None or the empty string (both falsy in Python).
ToolResult(o, e, img, s) ==
    [output |-> o, error |-> e, base64_image |-> img, system |-> s]

NoResult == ToolResult(0, 0, 0, 0)

\* The results a tool invocation hands back in a session: text output with a
\* screenshot, or an error.
ToolResults == { ToolResult(1, 0, 1, 0), ToolResult(0, 1, 0, 0) }

\* DemoEvent: one record shape for the five TypedDicts of state.py:18-39.
\* Unused fields hold 0 / "" / NoResult.  For an error event, `error` holds
\* the 1-based log position of the event whose handling raised (the worker's
\* message is str(e) + '\nfor event\n' + str(event)).
DemoEvent(ty, tx, i, nm, inp, res, tid, err) ==
    [type |-> ty, text |-> tx, id |-> i, name |-> nm, input |-> inp,
     result |-> res, tool_use_id |-> tid, error |-> err]

DemoEventUserInput(tx) == DemoEvent("user_input", tx, 0, "", 0, NoResult, 0, 0)

DemoEventAssistantOutput(tx) ==
    DemoEvent("assistant_output", tx, 0, "", 0, NoResult, 0, 0)

DemoEventToolUse(i, nm, inp) ==
    DemoEvent("tool_use", 0, i, nm, inp, NoResult, 0, 0)

DemoEventToolResult(res, tid) ==
    DemoEvent("tool_result", 0, 0, "", 0, res, tid, 0)

DemoEventError(err) == DemoEvent("error", 0, 0, "", 0, NoResult, 0, err)

\* A content block of a BetaMessage returned by the model backend.
ContentBlock(ty, tx, i, nm, inp) ==
    [type |-> ty, text |-> tx, id |-> i, name |-> nm, input |-> inp]

\* WorkerEvent: one record shape for the four TypedDicts of state.py:161-176.
\* `run` and `step` are history fields: the run that pushed the outcome and
\* the index in its pending snapshot of the event the outcome is for.
WorkerEvent(ty, resp, res, tid, cur, err, r, s) ==
    [type |-> ty, response |-> resp, tool_result |-> res, tool_use_id |-> tid,
     cursor |-> cur, error |-> err, run |-> r, step |-> s]

WorkerEventAnthropicResponse(resp, r, s) ==
    WorkerEvent("anthropic_response", resp, NoResult, 0, 0, 0, r, s)

WorkerEventToolResult(res, tid, r, s) ==
    WorkerEvent("tool_result", <<>>, res, tid, 0, 0, r, s)

WorkerEventError(err, r, s) == WorkerEvent("error", <<>>, NoResult, 0, 0, err, r, s)

WorkerEventFinished(cur, r) ==
    WorkerEvent("finished", <<>>, NoResult, 0, cur, 0, r, 0)

\* ------------------------------------------------------------------- state
VARIABLES
    demo_events,     \* session_state.demo_events : the event log
    worker_cursor,   \* session_state.worker_cursor
    worker_running,  \* session_state.worker_running
    worker_queue,    \* session_state.worker_queue : outcomes in flight
    evi_commands,    \* session_state.evi_commands
    runs,            \* the run_worker tasks handed to the background context
    nruns,           \* how many tasks the background context has received
    hist,            \* history: fresh-value counters of the session
    ser,             \* one call of the context serializer: its input and output
    evi_events,      \* the inbound events the voice component has returned
    evi_cursor       \* session_state.evi_cursor

vars == <<demo_events, worker_cursor, worker_running, worker_queue,
          evi_commands, runs, nruns, hist, ser, evi_events, evi_cursor>>

\* The log never holds more than the inputs, the model's blocks, one
\* tool_result per tool_use block and one error event per failure; every
\* run moves the cursor forward, so no session has more runs than that.
MaxRuns == MaxInputs + 2 * MaxModelBlocks + MaxFails

RunIds == 1..MaxRuns

\* A run_worker task: pc is "none" (not scheduled), "scheduled" (handed to
\* the background loop, body not started), "running" (inside the for loop),
\* "done" (returned after pushing 'finished') or "crashed" (left by an
\* exception outside the try block).  `pushed` and `calls` are history: the
\* outcomes the run has put on the queue, and the model calls it has issued
\* (the snapshot step of each and how many log events were serialized).
NoRun ==
    [pc |-> "none", cursor |-> 0, pending |-> <<>>, i |-> 0,
     sched_len |-> 0, pushed |-> <<>>, calls |-> <<>>]

\* The history counters of a fresh session: user inputs appended, tool_use
\* ids and texts the model has issued, failures, renders of the voice chat,
\* re-entries of the render loop.
NoHist ==
    [inputs |-> 0, ids |-> 0, texts |-> 0, fails |-> 0, renders |-> 0,
     reruns |-> 0]

\* A call of the context serializer: pc is "none" (no call), "call" (the
\* arguments are bound), "sent" (the message list is built) or "resent" (a
\* second call with the same arguments has built its list); `before` is the
\* message list as converted, before the image filter runs on it.  A call
\* of the image filter alone goes from "filter" (`before` is its argument)
\* to "filtered" (`messages` is the list it leaves).
NoCall ==
    [pc |-> "none", events |-> <<>>, keep |-> 0 - 1, chunk |-> 1,
     before |-> <<>>, messages |-> <<>>, again |-> <<>>]

\* ---------------------------------------------------------------- helpers
RECURSIVE CountType(_, _)
CountType(s, ty) ==
    IF s = <<>> THEN 0
    ELSE (IF Head(s).type = ty THEN 1 ELSE 0) + CountType(Tail(s), ty)

\* The content of one model response: a text block carries a fresh text, a
\* tool_use block a fresh id (the backend issues unique ids).
RECURSIVE MkBlocks(_, _, _)
MkBlocks(kinds, nid, ntext) ==
    IF kinds = <<>> THEN <<>>
    ELSE IF Head(kinds) = "tool_use"
         THEN <<ContentBlock("tool_use", 0, nid + 1, "bash", nid + 1)>>
              \o MkBlocks(Tail(kinds), nid + 1, ntext)
         ELSE <<ContentBlock("text", ntext + 1, 0, "", 0)>>
              \o MkBlocks(Tail(kinds), nid, ntext + 1)

BlockKinds == {"text", "tool_use"}

KindSeqs == UNION {[1..n -> BlockKinds] : n \in 0..MaxModelBlocks}

\* ----------------------------------------------------------- initial state
\* State.setup_state on a fresh session.
Init ==
    /\ demo_events = <<>>
    /\ worker_cursor = 0
    /\ worker_running = FALSE
    /\ worker_queue = <<>>
    /\ evi_commands = <<>>
    /\ runs = [r \in RunIds |-> NoRun]
    /\ nruns = 0
    /\ hist = NoHist
    /\ evi_events = <<>>
    /\ evi_cursor = 0
    /\ ser = NoCall

\* ------------------------------------------------- State's append methods
add_user_input(log, tx) == Append(log, DemoEventUserInput(tx))

add_assistant_output(log, tx) == Append(log, DemoEventAssistantOutput(tx))

trigger_evi_speech(cmds, tx) ==
    Append(cmds, [type |-> "sendAssistantInput", message |-> tx])

add_error(log, err) == Append(log, DemoEventError(err))

add_tool_use(log, i, inp, nm) == Append(log, DemoEventToolUse(i, nm, inp))

\* An add_tool_result that stores the result over the last entry.
add_tool_result_over_last(log, res, tid) ==
    [log EXCEPT ![Len(log)] = DemoEventToolResult(res, tid)]

add_tool_result(log, res, tid) == Append(log, DemoEventToolResult(res, tid))

\* ------------------------------------------------- the context serializer
\* images_to_keep = None
None == 0 - 1

\* min_removal_threshold, the default of _maybe_filter_to_n_most_recent_images
MinRemovalThreshold == 10

\* A content block of a BetaMessageParam.  A tool_result block's content is
\* either a list of sub-blocks (`content`, is_str FALSE) or, for an error
\* result, a string (`str`, is_str TRUE).  A text is the pair
\* <<system, body>>: system is 0 when nothing is prepended.
TextBlockParam(tx) ==
    [type |-> "text", text |-> tx, id |-> 0, name |-> "", input |-> 0,
     tool_use_id |-> 0, content |-> <<>>, is_str |-> FALSE, str |-> <<0, 0>>,
     is_error |-> FALSE]

ToolUseBlockParam(i, inp, nm) ==
    [type |-> "tool_use", text |-> 0, id |-> i, name |-> nm, input |-> inp,
     tool_use_id |-> 0, content |-> <<>>, is_str |-> FALSE, str |-> <<0, 0>>,
     is_error |-> FALSE]

ToolResultBlockParam(tid, content, isstr, st, iserr) ==
    [type |-> "tool_result", text |-> 0, id |-> 0, name |-> "", input |-> 0,
     tool_use_id |-> tid, content |-> content, is_str |-> isstr, str |-> st,
     is_error |-> iserr]

TextSubBlock(tx) == [type |-> "text", text |-> tx, data |-> 0]

ImageSubBlock(d) == [type |-> "image", text |-> <<0, 0>>, data |-> d]

\* A top-level image block of a message (not inside a tool_result).
ImageBlockParam(d) == [type |-> "image", data |-> d]

MessageParam(role, content) == [role |-> role, content |-> content]

\* to_beta_message_param returns None for an error event.
NoneMessage == MessageParam("none", <<>>)

\* f"<system>{result.system}</system>\n{result_text}" when result.system
_maybe_prepend_system_tool_result(result, result_text) ==
    IF result.system # 0 THEN <<result.system, result_text>>
    ELSE <<0, result_text>>

_make_api_tool_result(result, tool_use_id) ==
    IF result.error # 0
    THEN ToolResultBlockParam(tool_use_id, <<>>, TRUE,
            _maybe_prepend_system_tool_result(result, result.error), TRUE)
    ELSE ToolResultBlockParam(tool_use_id,
            (IF result.output # 0
             THEN <<TextSubBlock(_maybe_prepend_system_tool_result(result, result.output))>>
             ELSE <<>>)
            \o (IF result.base64_image # 0
                THEN <<ImageSubBlock(result.base64_image)>> ELSE <<>>),
            FALSE, <<0, 0>>, FALSE)

\* A ToolResult that tests false when none of its fields is set.
ToolResultTruthyNonEmpty(result) == result # NoResult

\* Whether `if tool_result:` takes a ToolResult found in the map: the design
\* document emits a tool_use whenever its id is present in the map.
ToolResultTruthy(result) == TRUE

\* tool_results_by_tool_use_id after the first loop: whether the map has the
\* id, and the value it holds (the result of the last event with that id).
HasToolResult(events, id) ==
    \E k \in DOMAIN events :
        events[k].type = "tool_result" /\ events[k].tool_use_id = id

RECURSIVE ToolResultFor(_, _)
ToolResultFor(events, id) ==
    IF events = <<>> THEN NoResult
    ELSE LET e == events[Len(events)] IN
         IF e.type = "tool_result" /\ e.tool_use_id = id THEN e.result
         ELSE ToolResultFor(SubSeq(events, 1, Len(events) - 1), id)

\* A second loop that also emits a tool_use whose id is not in the map.
GroupOneKeepsPending(events, event) ==
    IF event.type = "tool_result" THEN <<>>
    ELSE IF event.type = "tool_use"
    THEN IF HasToolResult(events, event.id)
         THEN <<event, DemoEventToolResult(ToolResultFor(events, event.id), event.id)>>
         ELSE <<event>>
    ELSE <<event>>

\* A second loop that does not skip tool_result events at their own place.
GroupOneKeepsResults(events, event) ==
    IF event.type = "tool_use"
    THEN IF HasToolResult(events, event.id)
         THEN <<event, DemoEventToolResult(ToolResultFor(events, event.id), event.id)>>
         ELSE <<>>
    ELSE <<event>>

\* A second loop that drops pending tool_use events and moves nothing.
GroupOneInPlace(events, event) ==
    IF event.type = "tool_use" /\ ~HasToolResult(events, event.id) THEN <<>>
    ELSE <<event>>

\* A second loop that emits a resolved tool_use without its tool_result.
GroupOneDropsResult(events, event) ==
    IF event.type = "tool_result" THEN <<>>
    ELSE IF event.type = "tool_use"
    THEN IF HasToolResult(events, event.id) THEN <<event>> ELSE <<>>
    ELSE <<event>>

\* What the second loop of group_tool_messages appends for one event.
GroupOne(events, event) ==
    IF event.type = "tool_result" THEN <<>>
    ELSE IF event.type = "tool_use"
    THEN IF HasToolResult(events, event.id)
            /\ ToolResultTruthy(ToolResultFor(events, event.id))
         THEN <<event, DemoEventToolResult(ToolResultFor(events, event.id), event.id)>>
         ELSE <<>>
    ELSE <<event>>

RECURSIVE GroupFrom(_, _)
GroupFrom(events, rest) ==
    IF rest = <<>> THEN <<>>
    ELSE GroupOne(events, Head(rest)) \o GroupFrom(events, Tail(rest))

group_tool_messages(events) == GroupFrom(events, events)

\* A conversion that renders an error event as a user turn.
to_beta_message_param_with_errors(event) ==
    CASE event.type = "user_input" ->
            MessageParam("user", <<TextBlockParam(event.text)>>)
      [] event.type = "assistant_output" ->
            MessageParam("assistant", <<TextBlockParam(event.text)>>)
      [] event.type = "tool_use" ->
            MessageParam("assistant",
                <<ToolUseBlockParam(event.id, event.input, event.name)>>)
      [] event.type = "tool_result" ->
            MessageParam("user",
                <<_make_api_tool_result(event.result, event.tool_use_id)>>)
      [] event.type = "error" ->
            MessageParam("user", <<TextBlockParam(event.error)>>)

\* A conversion that gives the turn of an assistant_output the user role.
to_beta_message_param_all_user(event) ==
    CASE event.type = "user_input" ->
            MessageParam("user", <<TextBlockParam(event.text)>>)
      [] event.type = "assistant_output" ->
            MessageParam("user", <<TextBlockParam(event.text)>>)
      [] event.type = "tool_use" ->
            MessageParam("assistant",
                <<ToolUseBlockParam(event.id, event.input, event.name)>>)
      [] event.type = "tool_result" ->
            MessageParam("user",
                <<_make_api_tool_result(event.result, event.tool_use_id)>>)
      [] event.type = "error" -> NoneMessage

to_beta_message_param(event) ==
    CASE event.type = "user_input" ->
            MessageParam("user", <<TextBlockParam(event.text)>>)
      [] event.type = "assistant_output" ->
            MessageParam("assistant", <<TextBlockParam(event.text)>>)
      [] event.type = "tool_use" ->
            MessageParam("assistant",
                <<ToolUseBlockParam(event.id, event.input, event.name)>>)
      [] event.type = "tool_result" ->
            MessageParam("user",
                <<_make_api_tool_result(event.result, event.tool_use_id)>>)
      [] event.type = "error" -> NoneMessage

\* [x for x in [to_beta_message_param(m) for m in group_tool_messages(...)] if x]
RECURSIVE ConvertAll(_)
ConvertAll(events) ==
    IF events = <<>> THEN <<>>
    ELSE LET x == to_beta_message_param(Head(events)) IN
         (IF x # NoneMessage THEN <<x>> ELSE <<>>) \o ConvertAll(Tail(events))

RECURSIVE SeqSum(_)
SeqSum(s) == IF s = <<>> THEN 0 ELSE Head(s) + SeqSum(Tail(s))

\* Image sub-blocks of one block, as total_images counts them: tool_result
\* blocks only; a string content has none.
BlockImages(block) ==
    IF block.type = "tool_result" /\ ~block.is_str
    THEN CountType(block.content, "image") ELSE 0

MessageImages(message) ==
    SeqSum([k \in DOMAIN message.content |-> BlockImages(message.content[k])])

TotalImages(messages) ==
    SeqSum([k \in DOMAIN messages |-> MessageImages(messages[k])])

\* The removal loop, threading images_to_remove: each operator returns the
\* rewritten sequence and the count that is left.
RECURSIVE FilterContent(_, _)
FilterContent(content, n) ==
    IF content = <<>> THEN [out |-> <<>>, n |-> n]
    ELSE LET c == Head(content) IN
         IF c.type = "image" /\ n > 0
         THEN FilterContent(Tail(content), n - 1)
         ELSE LET rest == FilterContent(Tail(content), n) IN
              [out |-> <<c>> \o rest.out, n |-> rest.n]

\* A removal loop that drops a whole tool_result block for each image it
\* has to remove.
RECURSIVE FilterBlocksDropsBlock(_, _)
FilterBlocksDropsBlock(blocks, n) ==
    IF blocks = <<>> THEN [out |-> <<>>, n |-> n]
    ELSE LET b == Head(blocks) IN
         IF b.type = "tool_result" /\ ~b.is_str
            /\ n > 0 /\ CountType(b.content, "image") > 0
         THEN FilterBlocksDropsBlock(Tail(blocks), n - 1)
         ELSE LET rest == FilterBlocksDropsBlock(Tail(blocks), n) IN
              [out |-> <<b>> \o rest.out, n |-> rest.n]

RECURSIVE FilterBlocks(_, _)
FilterBlocks(blocks, n) ==
    IF blocks = <<>> THEN [out |-> <<>>, n |-> n]
    ELSE LET b == Head(blocks) IN
         IF b.type = "tool_result" /\ ~b.is_str
         THEN LET f == FilterContent(b.content, n)
                  rest == FilterBlocks(Tail(blocks), f.n)
              IN [out |-> <<[b EXCEPT !.content = f.out]>> \o rest.out, n |-> rest.n]
         ELSE LET rest == FilterBlocks(Tail(blocks), n) IN
              [out |-> <<b>> \o rest.out, n |-> rest.n]

\* A removal loop that walks the messages from the last to the first.
RECURSIVE FilterMessagesNewestFirst(_, _)
FilterMessagesNewestFirst(messages, n) ==
    IF messages = <<>> THEN [out |-> <<>>, n |-> n]
    ELSE LET rest == FilterMessagesNewestFirst(Tail(messages), n)
             f == FilterBlocks(Head(messages).content, rest.n)
         IN [out |-> <<[Head(messages) EXCEPT !.content = f.out]>> \o rest.out,
             n |-> f.n]

RECURSIVE FilterMessages(_, _)
FilterMessages(messages, n) ==
    IF messages = <<>> THEN [out |-> <<>>, n |-> n]
    ELSE LET f == FilterBlocks(Head(messages).content, n)
             rest == FilterMessages(Tail(messages), f.n)
         IN [out |-> <<[Head(messages) EXCEPT !.content = f.out]>> \o rest.out,
             n |-> rest.n]

\* A count that is not rounded down to a multiple of the chunk.
ImagesToRemoveUnrounded(total_images, images_to_keep, min_removal_threshold) ==
    total_images - images_to_keep

\* A count that is rounded up to a multiple of the chunk.
ImagesToRemoveRoundedUp(total_images, images_to_keep, min_removal_threshold) ==
    LET images_to_remove == total_images - images_to_keep IN
    images_to_remove
       + ((min_removal_threshold - (images_to_remove % min_removal_threshold))
             % min_removal_threshold)

ImagesToRemove(total_images, images_to_keep, min_removal_threshold) ==
    LET images_to_remove == total_images - images_to_keep IN
    images_to_remove - (images_to_remove % min_removal_threshold)

\* The messages list after the in-place filter.
_maybe_filter_to_n_most_recent_images(messages, images_to_keep, min_removal_threshold) ==
    IF images_to_keep = None THEN messages
    ELSE FilterMessages(messages,
            ImagesToRemove(TotalImages(messages), images_to_keep,
                           min_removal_threshold)).out

\* The messages phone_anthropic sends for a log, for a given image cap and
\* removal chunk.
RequestMessages(events, images_to_keep, min_removal_threshold) ==
    _maybe_filter_to_n_most_recent_images(
        ConvertAll(group_tool_messages(events)), images_to_keep,
        min_removal_threshold)

phone_anthropic(events, only_n_most_recent_images) ==
    RequestMessages(events, only_n_most_recent_images, MinRemovalThreshold)

\* session_state.only_n_most_recent_images as setup_state leaves it.
OnlyNMostRecentImages == 10

\* An event list that group_tool_messages rewrites in place.
EventsAfterSendGrouped(events, messages) == group_tool_messages(events)

\* The event list after phone_anthropic has built its messages from it:
\* group_tool_messages appends to a new list, to_beta_message_param and
\* _make_api_tool_result build new dicts, and the filter assigns "content"
\* of those new tool_result dicts, so the list it was given is as before.
EventsAfterSend(events, messages) == events

\* ------------------------------------------------------- the owning thread
\* The render loop appends each new user message to the log.
AddUserInput ==
    /\ hist.inputs < MaxInputs
    /\ demo_events' = add_user_input(demo_events, hist.inputs + 1)
    /\ hist' = [hist EXCEPT !.inputs = @ + 1]
    /\ UNCHANGED <<worker_cursor, worker_running, worker_queue, evi_commands,
                   runs, nruns, ser, evi_events, evi_cursor>>

\* The owner's scheduling step: when no run is active and the log holds
\* unprocessed entries, mark the session running and hand one run_worker
\* task (the session's log, the cursor and the queue) to the background loop.
\* With a run active the attempt does nothing.
ScheduleWorker ==
    IF ~worker_running /\ worker_cursor < Len(demo_events)
    THEN /\ nruns < MaxRuns
         /\ worker_running' = TRUE
         /\ nruns' = nruns + 1
         /\ runs' = [runs EXCEPT ![nruns + 1] =
                        [NoRun EXCEPT !.pc = "scheduled",
                                      !.cursor = worker_cursor,
                                      !.sched_len = Len(demo_events)]]
         /\ UNCHANGED <<demo_events, worker_cursor, worker_queue,
                        evi_commands, hist, ser, evi_events,
                        evi_cursor>>
    ELSE UNCHANGED vars

\* process_computer_use_event, the 'anthropic_response' branch: one log
\* event per content block, and a speak command per text block.
\* A handler that appends the events of the later blocks first.
RECURSIVE ApplyResponseLogReversed(_, _)
ApplyResponseLogReversed(log, blocks) ==
    IF blocks = <<>> THEN log
    ELSE LET b == blocks[Len(blocks)] IN
         ApplyResponseLogReversed(
            IF b.type = "tool_use" THEN add_tool_use(log, b.id, b.input, b.name)
            ELSE IF b.type = "text" THEN add_assistant_output(log, b.text)
            ELSE log,
            SubSeq(blocks, 1, Len(blocks) - 1))

RECURSIVE ApplyResponseLog(_, _)
ApplyResponseLog(log, blocks) ==
    IF blocks = <<>> THEN log
    ELSE LET b == Head(blocks) IN
         ApplyResponseLog(
            IF b.type = "tool_use" THEN add_tool_use(log, b.id, b.input, b.name)
            ELSE IF b.type = "text" THEN add_assistant_output(log, b.text)
            ELSE log,
            Tail(blocks))

\* A handler that speaks a command for every content block.
RECURSIVE ApplyResponseCmdsEveryBlock(_, _)
ApplyResponseCmdsEveryBlock(cmds, blocks) ==
    IF blocks = <<>> THEN cmds
    ELSE ApplyResponseCmdsEveryBlock(
            trigger_evi_speech(cmds, Head(blocks).text), Tail(blocks))

RECURSIVE ApplyResponseCmds(_, _)
ApplyResponseCmds(cmds, blocks) ==
    IF blocks = <<>> THEN cmds
    ELSE LET b == Head(blocks) IN
         ApplyResponseCmds(
            IF b.type = "text" THEN trigger_evi_speech(cmds, b.text) ELSE cmds,
            Tail(blocks))

\* The value 'finished' leaves in worker_running.
FinishedRunning == FALSE

\* An 'error' outcome that ends the run as 'finished' does.
ErrorRunningStops(running) == FALSE

\* The value an 'error' outcome leaves in worker_running.
ErrorRunning(running) == running

\* The cursor a 'finished' outcome leaves in worker_cursor.
FinishedCursor(result) == result.cursor

\* An outcome handler that stores the 'finished' cursor in both cursors.
EviCursorAfterFinished(result, cursor) ==
    IF result.type = "finished" THEN result.cursor ELSE cursor

\* session_state.evi_cursor after an outcome is applied:
\* process_computer_use_event has no assignment to it.
EviCursorAfter(result, cursor) == cursor

\* A handler whose 'anthropic_response' branch moves the cursor to the end
\* of the log as well.
process_computer_use_event_advancing(result) ==
    CASE result.type = "anthropic_response" ->
            /\ demo_events' = ApplyResponseLog(demo_events, result.response)
            /\ evi_commands' = ApplyResponseCmds(evi_commands, result.response)
            /\ worker_cursor' = Len(demo_events')
            /\ UNCHANGED worker_running
      [] result.type = "tool_result" ->
            /\ demo_events' = add_tool_result(demo_events, result.tool_result,
                                              result.tool_use_id)
            /\ UNCHANGED <<evi_commands, worker_running, worker_cursor>>
      [] result.type = "finished" ->
            /\ worker_running' = FinishedRunning
            /\ worker_cursor' = FinishedCursor(result)
            /\ UNCHANGED <<demo_events, evi_commands>>
      [] result.type = "error" ->
            /\ demo_events' = add_error(demo_events, result.error)
            /\ worker_running' = ErrorRunning(worker_running)
            /\ UNCHANGED <<evi_commands, worker_cursor>>

process_computer_use_event(result) ==
    CASE result.type = "anthropic_response" ->
            /\ demo_events' = ApplyResponseLog(demo_events, result.response)
            /\ evi_commands' = ApplyResponseCmds(evi_commands, result.response)
            /\ UNCHANGED <<worker_running, worker_cursor>>
      [] result.type = "tool_result" ->
            /\ demo_events' = add_tool_result(demo_events, result.tool_result,
                                              result.tool_use_id)
            /\ UNCHANGED <<evi_commands, worker_running, worker_cursor>>
      [] result.type = "finished" ->
            /\ worker_running' = FinishedRunning
            /\ worker_cursor' = FinishedCursor(result)
            /\ UNCHANGED <<demo_events, evi_commands>>
      [] result.type = "error" ->
            /\ demo_events' = add_error(demo_events, result.error)
            /\ worker_running' = ErrorRunning(worker_running)
            /\ UNCHANGED <<evi_commands, worker_cursor>>

\* The owner's drain step: pop the oldest outcome of the queue and apply it.
Drain ==
    /\ worker_queue # <<>>
    /\ worker_queue' = Tail(worker_queue)
    /\ process_computer_use_event(Head(worker_queue))
    /\ evi_cursor' = EviCursorAfter(Head(worker_queue), evi_cursor)
    /\ UNCHANGED <<runs, nruns, hist, ser, evi_events>>

\* --------------------------------------------------------- the worker task
\* A queue whose put places the outcome in front of the older ones.
PutInFront(r, outcome, run) ==
    /\ worker_queue' = <<outcome>> \o worker_queue
    /\ runs' = [runs EXCEPT ![r] = [run EXCEPT !.pushed = Append(@, [type |-> outcome.type, step |-> outcome.step])]]

\* worker_queue.put by run r: the queue grows and the run's history of
\* pushed outcomes (type and snapshot step) grows with it.
Put(r, outcome, run) ==
    /\ worker_queue' = Append(worker_queue, outcome)
    /\ runs' = [runs EXCEPT ![r] = [run EXCEPT !.pushed = Append(@, [type |-> outcome.type, step |-> outcome.step])]]

\* run_worker up to the for loop: the tool collection is built and the
\* pending events are copied out of the log.
WorkerStart(r) ==
    /\ runs[r].pc = "scheduled"
    /\ runs' = [runs EXCEPT ![r].pc = "running",
                            ![r].pending = SubSeq(demo_events, runs[r].cursor + 1,
                                                  Len(demo_events)),
                            ![r].i = 1]
    /\ UNCHANGED <<demo_events, worker_cursor, worker_running, worker_queue,
                   evi_commands, nruns, hist, ser, evi_events, evi_cursor>>

\* Building the tool collection raises: the statement is outside the try
\* block, so the coroutine ends with that exception and pushes nothing.
WorkerSetupFail(r) ==
    /\ runs[r].pc = "scheduled"
    /\ hist.fails < MaxFails
    /\ runs' = [runs EXCEPT ![r].pc = "crashed"]
    /\ hist' = [hist EXCEPT !.fails = @ + 1]
    /\ UNCHANGED <<demo_events, worker_cursor, worker_running, worker_queue,
                   evi_commands, nruns, ser, evi_events, evi_cursor>>

\* A loop that calls the model for assistant_output events as well.
CallsModelForOutput(event) ==
    event.type \in {"user_input", "tool_result", "assistant_output"}

\* The events whose iteration calls phone_anthropic.
CallsModel(event) == event.type \in {"user_input", "tool_result"}

\* A call that serializes the log up to the event being handled.
SerializedThroughStep(log, run, step) == SubSeq(log, 1, run.cursor + step)

\* The events handed to phone_anthropic in the iteration for snapshot step
\* `step`: the demo_events list run_worker was given.
SerializedEvents(log, run, step) == log

\* A tool collection that lets the failure of a tool escape as an exception.
ToolRunRaisesOnFailure == TRUE

\* Whether tool_collection.run can raise: the tool collection reports every
\* failure (a tool that raises, an unknown name) in the error field of the
\* result it returns.
ToolRunRaises == FALSE

\* A loop that handles the same event again after a failure.
AfterFailureRetry(run) == run

\* The run after the except branch: `continue` moves to the next event.
AfterFailure(run) == [run EXCEPT !.i = @ + 1]

\* One iteration of the for loop over pending_events.
WorkerStep(r) ==
    /\ runs[r].pc = "running"
    /\ runs[r].i <= Len(runs[r].pending)
    /\ LET event == runs[r].pending[runs[r].i]
           step == runs[r].i
           next == [runs[r] EXCEPT !.i = @ + 1]
           pos == runs[r].cursor + runs[r].i
           sent == SerializedEvents(demo_events, runs[r], step)
           calling == [runs[r] EXCEPT !.calls =
                          Append(@, [step |-> step, upto |-> Len(sent)])]
           called == [calling EXCEPT !.i = @ + 1]
       IN
       \/ \* user_input / tool_result: phone_anthropic serializes the log
          \* it was given and the model backend answers
          /\ CallsModel(event)
          /\ demo_events' =
                EventsAfterSend(demo_events,
                    phone_anthropic(sent, OnlyNMostRecentImages))
          /\ \E kinds \in KindSeqs :
                /\ hist.ids + hist.texts + Len(kinds) <= MaxModelBlocks
                /\ LET blocks == MkBlocks(kinds, hist.ids, hist.texts) IN
                   /\ Put(r, WorkerEventAnthropicResponse(blocks, r, step), called)
                   /\ hist' = [hist EXCEPT
                                 !.ids = @ + CountType(blocks, "tool_use"),
                                 !.texts = @ + CountType(blocks, "text")]
       \/ \* tool_use: the tool collection runs the tool
          /\ event.type = "tool_use"
          /\ \E res \in ToolResults :
                Put(r, WorkerEventToolResult(res, event.id, r, step), next)
          /\ UNCHANGED <<demo_events, hist>>
       \/ \* the model call raises (or the tool collection does)
          /\ CallsModel(event) \/ (event.type = "tool_use" /\ ToolRunRaises)
          /\ hist.fails < MaxFails
          /\ Put(r, WorkerEventError(pos, r, step),
                 AfterFailure(IF CallsModel(event) THEN calling ELSE runs[r]))
          /\ hist' = [hist EXCEPT !.fails = @ + 1]
          /\ UNCHANGED demo_events
       \/ \* assistant_output / error: continue
          /\ event.type \in {"assistant_output", "error"}
          /\ runs' = [runs EXCEPT ![r] = next]
          /\ UNCHANGED <<demo_events, worker_queue, hist>>
    /\ UNCHANGED <<worker_cursor, worker_running, evi_commands, nruns, ser,
                   evi_events, evi_cursor>>

\* A worker that reports the cursor it was started with.
ReportedCursorStart(run, log) == run.cursor

\* A worker that reports the length of its pending snapshot as the cursor.
ReportedCursorPendingOnly(run, log) == Len(run.pending)

\* The cursor run_worker reports: len(demo_events), read from the list it
\* was given (the session's log) when the loop is over.
ReportedCursor(run, log) == Len(log)

\* After the loop: push 'finished'.
WorkerFinish(r) ==
    /\ runs[r].pc = "running"
    /\ runs[r].i > Len(runs[r].pending)
    /\ Put(r, WorkerEventFinished(ReportedCursor(runs[r], demo_events), r),
           [runs[r] EXCEPT !.pc = "done"])
    /\ UNCHANGED <<demo_events, worker_cursor, worker_running, evi_commands,
                   nruns, hist, ser, evi_events, evi_cursor>>

Worker ==
    \E r \in RunIds :
        WorkerStart(r) \/ WorkerSetupFail(r) \/ WorkerStep(r) \/ WorkerFinish(r)

Next == AddUserInput \/ ScheduleWorker \/ Drain \/ Worker

Spec == Init /\ [][Next]_vars

\* The engine under fair scheduling: the owner keeps attempting to schedule
\* and keeps draining the queue, and the background loop keeps running the
\* task it was handed.
FairSpec ==
    /\ Spec
    /\ WF_vars(ScheduleWorker)
    /\ WF_vars(Drain)
    /\ WF_vars(Worker)

\* ------------------------------------- the serializer on bounded inputs
\* The events a serializer input is drawn from.
SerEvents ==
    { DemoEventUserInput(1), DemoEventAssistantOutput(1), DemoEventError(1),
      DemoEventToolUse(1, "bash", 1), DemoEventToolUse(2, "computer", 2),
      DemoEventToolResult(ToolResult(1, 0, 0, 0), 1),
      DemoEventToolResult(NoResult, 1),
      DemoEventToolResult(ToolResult(1, 0, 1, 0), 1),
      DemoEventToolResult(ToolResult(0, 0, 1, 0), 2),
      DemoEventToolResult(ToolResult(0, 1, 0, 1), 2) }

SerInputs == UNION {[1..n -> SerEvents] : n \in 0..MaxSerLen}

\* Image caps and removal chunks the serializer is called with.
SerKeeps == {None, 0, 1}

SerChunks == {1, 2, MinRemovalThreshold}

SerInit ==
    /\ demo_events = <<>>
    /\ worker_cursor = 0
    /\ worker_running = FALSE
    /\ worker_queue = <<>>
    /\ evi_commands = <<>>
    /\ runs = [r \in RunIds |-> NoRun]
    /\ nruns = 0
    /\ hist = NoHist
    /\ evi_events = <<>>
    /\ evi_cursor = 0
    /\ \E events \in SerInputs :
          ser = [NoCall EXCEPT !.pc = "call", !.events = events]

\* One serializer call: the message list built for ser.events.
SerSend ==
    /\ ser.pc = "call"
    /\ \E keep \in SerKeeps, chunk \in SerChunks :
          LET messages == RequestMessages(ser.events, keep, chunk) IN
          ser' = [ser EXCEPT !.pc = "sent",
                             !.keep = keep,
                             !.chunk = chunk,
                             !.before = ConvertAll(group_tool_messages(ser.events)),
                             !.messages = messages,
                             !.events = EventsAfterSend(ser.events, messages)]
    /\ UNCHANGED <<demo_events, worker_cursor, worker_running, worker_queue,
                   evi_commands, runs, nruns, hist, evi_events, evi_cursor>>

\* A second call with the same arguments, on the event list as the first
\* call left it.
SerSendAgain ==
    /\ ser.pc = "sent"
    /\ ser' = [ser EXCEPT !.pc = "resent",
                          !.again = RequestMessages(ser.events, ser.keep, ser.chunk)]
    /\ UNCHANGED <<demo_events, worker_cursor, worker_running, worker_queue,
                   evi_commands, runs, nruns, hist, evi_events, evi_cursor>>

SerNext == SerSend \/ SerSendAgain

SerSpec == SerInit /\ [][SerNext]_vars

\* ------------------------------------- the image filter on bounded inputs
\* The kinds of message a filter input is built from: the turns
\* to_beta_message_param makes (text, tool_use, tool_result with list or
\* string content) and turns the filter's isinstance / type tests are
\* written for (several images in one tool_result, several tool_result
\* blocks in one message, an image block outside any tool_result).
PruneKinds ==
    { "text", "tool_use", "image", "result_empty", "result_text_image",
      "result_image_text_image", "result_error", "two_results" }

\* The message of kind `kind` at index m of the list; every image carries
\* data 100 * m + 10 * (block index) + (sub-block index), so that images
\* are distinct and later images carry larger data.
PruneTurn(kind, m) ==
    CASE kind = "text" -> MessageParam("user", <<TextBlockParam(m)>>)
      [] kind = "tool_use" ->
            MessageParam("assistant", <<ToolUseBlockParam(m, m, "computer")>>)
      [] kind = "image" ->
            MessageParam("user", <<ImageBlockParam(100 * m + 10)>>)
      [] kind = "result_empty" ->
            MessageParam("user",
                <<ToolResultBlockParam(m, <<>>, FALSE, <<0, 0>>, FALSE)>>)
      [] kind = "result_text_image" ->
            MessageParam("user",
                <<ToolResultBlockParam(m,
                    <<TextSubBlock(<<0, m>>), ImageSubBlock(100 * m + 12)>>,
                    FALSE, <<0, 0>>, FALSE)>>)
      [] kind = "result_image_text_image" ->
            MessageParam("user",
                <<ToolResultBlockParam(m,
                    <<ImageSubBlock(100 * m + 11), TextSubBlock(<<0, m>>),
                      ImageSubBlock(100 * m + 13)>>,
                    FALSE, <<0, 0>>, FALSE)>>)
      [] kind = "result_error" ->
            MessageParam("user",
                <<ToolResultBlockParam(m, <<>>, TRUE, <<0, m>>, TRUE)>>)
      [] kind = "two_results" ->
            MessageParam("user",
                <<ToolResultBlockParam(m, <<ImageSubBlock(100 * m + 11)>>,
                                       FALSE, <<0, 0>>, FALSE),
                  TextBlockParam(m),
                  ToolResultBlockParam(m,
                    <<TextSubBlock(<<0, m>>), ImageSubBlock(100 * m + 32)>>,
                    FALSE, <<0, 0>>, FALSE)>>)

PruneShapes == UNION {[1..n -> PruneKinds] : n \in 0..MaxPruneLen}

PruneMessages(shape) == [m \in DOMAIN shape |-> PruneTurn(shape[m], m)]

\* Image caps and removal chunks the filter is called with.
PruneKeeps == {None, 0, 1, 2}

PruneChunks == {1, 2, 3, MinRemovalThreshold}

PruneInit ==
    /\ demo_events = <<>>
    /\ worker_cursor = 0
    /\ worker_running = FALSE
    /\ worker_queue = <<>>
    /\ evi_commands = <<>>
    /\ runs = [r \in RunIds |-> NoRun]
    /\ nruns = 0
    /\ hist = NoHist
    /\ evi_events = <<>>
    /\ evi_cursor = 0
    /\ \E shape \in PruneShapes, keep \in PruneKeeps, chunk \in PruneChunks :
          ser = [NoCall EXCEPT !.pc = "filter", !.keep = keep, !.chunk = chunk,
                               !.before = PruneMessages(shape)]

\* One call of _maybe_filter_to_n_most_recent_images on ser.before.
PruneApply ==
    /\ ser.pc = "filter"
    /\ ser' = [ser EXCEPT !.pc = "filtered",
                          !.messages = _maybe_filter_to_n_most_recent_images(
                                          ser.before, ser.keep, ser.chunk)]
    /\ UNCHANGED <<demo_events, worker_cursor, worker_running, worker_queue,
                   evi_commands, runs, nruns, hist, evi_events, evi_cursor>>

PruneNext == PruneApply

PruneSpec == PruneInit /\ [][PruneNext]_vars

\* ------------------------------------------------- the voice chat render
\* Inbound events of the voice component: 'opened', and 'message' carrying
\* a user_message or an assistant_message with its content.
EviOpened == [type |-> "opened", role |-> "", content |-> 0]

EviMessage(role, content) == [type |-> "message", role |-> role, content |-> content]

\* new_events = events[state.evi_chat_cursor:] when the cursor is below
\* len(events), else [].  State has one inbound cursor, evi_cursor.
NewEvents(events, cursor) ==
    IF cursor < Len(events) THEN SubSeq(events, cursor + 1, Len(events))
    ELSE <<>>

\* The loop over new_events: the content of each user_message, in order.
RECURSIVE UserContents(_)
UserContents(new_events) ==
    IF new_events = <<>> THEN <<>>
    ELSE (IF Head(new_events).type = "message"
             /\ Head(new_events).role = "user_message"
          THEN <<Head(new_events).content>> ELSE <<>>)
         \o UserContents(Tail(new_events))

_hume_evi_chat(events, cursor) == UserContents(NewEvents(events, cursor))

\* for new_message in new_messages: state.add_user_input(new_message)
RECURSIVE AddUserInputs(_, _)
AddUserInputs(log, new_messages) ==
    IF new_messages = <<>> THEN log
    ELSE AddUserInputs(add_user_input(log, Head(new_messages)), Tail(new_messages))

\* session_state.evi_cursor after a render: neither _hume_evi_chat nor the
\* render loop assigns it.
EviCursorAfterRender(events, cursor) == cursor

\* The voice component delivers one more inbound event; a user message
\* carries a content of its own.
EviInbound ==
    /\ Len(evi_events) < MaxInbound
    /\ \E e \in { EviOpened,
                   EviMessage("user_message", 10 + Len(evi_events) + 1),
                   EviMessage("assistant_message", 10 + Len(evi_events) + 1) } :
          evi_events' = Append(evi_events, e)
    /\ UNCHANGED <<demo_events, worker_cursor, worker_running, worker_queue,
                   evi_commands, runs, nruns, hist, ser, evi_cursor>>

\* One render: _hume_evi_chat returns the new user messages and the render
\* loop appends each to the log.
RenderVoice ==
    /\ hist.renders < MaxRenders
    /\ LET new_messages == _hume_evi_chat(evi_events, evi_cursor) IN
       /\ demo_events' = AddUserInputs(demo_events, new_messages)
       /\ hist' = [hist EXCEPT !.renders = @ + 1,
                               !.inputs = @ + Len(new_messages)]
    /\ evi_cursor' = EviCursorAfterRender(evi_events, evi_cursor)
    /\ UNCHANGED <<worker_cursor, worker_running, worker_queue, evi_commands,
                   runs, nruns, ser, evi_events>>

\* The states of the engine the voice chat is rendered in: a fresh session,
\* and sessions where a run has returned and its outcomes are in the queue
\* (a text response, a failed model call, a tool result), each with its
\* 'finished'.
DoneRun(cursor, pending, kind) ==
    [pc |-> "done", cursor |-> cursor, pending |-> pending, i |-> 2,
     sched_len |-> cursor + 1,
     pushed |-> << [type |-> kind, step |-> 1], [type |-> "finished", step |-> 0] >>,
     calls |-> IF CallsModel(pending[1])
               THEN << [step |-> 1, upto |-> cursor + 1] >> ELSE <<>>]

VoiceEngineStates ==
    { [log |-> <<>>, cursor |-> 0, running |-> FALSE, queue |-> <<>>,
       runs |-> [r \in RunIds |-> NoRun], nruns |-> 0, hist |-> NoHist],
      [log |-> <<DemoEventUserInput(1)>>, cursor |-> 0, running |-> TRUE,
       queue |-> << WorkerEventAnthropicResponse(
                       <<ContentBlock("text", 1, 0, "", 0)>>, 1, 1),
                    WorkerEventFinished(1, 1) >>,
       runs |-> [r \in RunIds |->
                   IF r = 1
                   THEN DoneRun(0, <<DemoEventUserInput(1)>>, "anthropic_response")
                   ELSE NoRun],
       nruns |-> 1,
       hist |-> [NoHist EXCEPT !.inputs = 1, !.texts = 1]],
      [log |-> <<DemoEventUserInput(1)>>, cursor |-> 0, running |-> TRUE,
       queue |-> << WorkerEventError(1, 1, 1), WorkerEventFinished(1, 1) >>,
       runs |-> [r \in RunIds |->
                   IF r = 1 THEN DoneRun(0, <<DemoEventUserInput(1)>>, "error")
                   ELSE NoRun],
       nruns |-> 1,
       hist |-> [NoHist EXCEPT !.inputs = 1, !.fails = 1]],
      [log |-> <<DemoEventUserInput(1), DemoEventToolUse(1, "bash", 1)>>,
       cursor |-> 1, running |-> TRUE,
       queue |-> << WorkerEventToolResult(ToolResult(1, 0, 1, 0), 1, 2, 1),
                    WorkerEventFinished(2, 2) >>,
       runs |-> [r \in RunIds |->
                   IF r = 1
                   THEN DoneRun(0, <<DemoEventUserInput(1)>>, "anthropic_response")
                   ELSE IF r = 2
                   THEN DoneRun(1, <<DemoEventToolUse(1, "bash", 1)>>, "tool_result")
                   ELSE NoRun],
       nruns |-> 2,
       hist |-> [NoHist EXCEPT !.inputs = 1, !.ids = 1]] }

VoiceInit ==
    /\ \E e \in VoiceEngineStates :
          /\ demo_events = e.log
          /\ worker_cursor = e.cursor
          /\ worker_running = e.running
          /\ worker_queue = e.queue
          /\ runs = e.runs
          /\ nruns = e.nruns
          /\ hist = e.hist
    /\ evi_commands = <<>>
    /\ ser = NoCall
    /\ evi_events = <<>>
    /\ evi_cursor = 0

VoiceNext == EviInbound \/ RenderVoice \/ Drain

VoiceSpec == VoiceInit /\ [][VoiceNext]_vars

\* --------------------------------- the outcome handler on bounded inputs
\* The contents of one model response: up to MaxApplyBlocks blocks.
ApplyKindSeqs == UNION {[1..n -> BlockKinds] : n \in 0..MaxApplyBlocks}

\* A session whose first run, over the snapshot [user_input], has pushed the
\* response of its model call and has not left its loop yet.
ApplyInit ==
    /\ \E kinds \in ApplyKindSeqs :
          LET blocks == MkBlocks(kinds, 0, 0) IN
          /\ worker_queue = << WorkerEventAnthropicResponse(blocks, 1, 1) >>
          /\ hist = [NoHist EXCEPT !.inputs = 1,
                                   !.ids = CountType(blocks, "tool_use"),
                                   !.texts = CountType(blocks, "text")]
    /\ demo_events = << DemoEventUserInput(1) >>
    /\ worker_cursor = 0
    /\ worker_running = TRUE
    /\ evi_commands = <<>>
    /\ runs = [r \in RunIds |->
                 IF r = 1
                 THEN [pc |-> "running", cursor |-> 0,
                       pending |-> << DemoEventUserInput(1) >>, i |-> 2,
                       sched_len |-> 1,
                       pushed |-> << [type |-> "anthropic_response", step |-> 1] >>,
                       calls |-> << [step |-> 1, upto |-> 1] >>]
                 ELSE NoRun]
    /\ nruns = 1
    /\ ser = NoCall
    /\ evi_events = <<>>
    /\ evi_cursor = 0

\* The owner appends input and drains the queue while the run ends.
ApplyNext == AddUserInput \/ Drain \/ WorkerFinish(1)

ApplySpec == ApplyInit /\ [][ApplyNext]_vars

\* ------------------------------------------- re-entering the render loop
\* A session_state with no key set.
EmptySession == [k \in {} |-> 0]

\* A set-up step that assigns the initial value whether the key is set or not.
SetAlways(session, key, value) ==
    [k \in DOMAIN session \cup {key} |-> IF k = key THEN value ELSE session[k]]

\* `if key not in session_state: session_state[key] = value`
SetDefault(session, key, value) ==
    IF key \in DOMAIN session THEN session
    ELSE [k \in DOMAIN session \cup {key} |-> IF k = key THEN value ELSE session[k]]

\* State.setup_state, for the session fields of the engine.
setup_state(session) ==
    LET s1 == SetDefault(session, "demo_events", <<>>)
        s2 == SetDefault(s1, "evi_commands", <<>>)
        s3 == SetDefault(s2, "evi_cursor", 0)
        s4 == SetDefault(s3, "worker_queue", <<>>)
        s5 == SetDefault(s4, "worker_cursor", 0)
    IN SetDefault(s5, "worker_running", FALSE)

\* The session_state of the running session.
Session ==
    [demo_events |-> demo_events, evi_commands |-> evi_commands,
     evi_cursor |-> evi_cursor, worker_queue |-> worker_queue,
     worker_cursor |-> worker_cursor, worker_running |-> worker_running]

\* The render loop is entered again: main calls State.setup_state on the
\* session.
SetupState ==
    /\ hist.reruns < MaxReruns
    /\ LET after == setup_state(Session) IN
       /\ demo_events' = after["demo_events"]
       /\ evi_commands' = after["evi_commands"]
       /\ evi_cursor' = after["evi_cursor"]
       /\ worker_queue' = after["worker_queue"]
       /\ worker_cursor' = after["worker_cursor"]
       /\ worker_running' = after["worker_running"]
    /\ hist' = [hist EXCEPT !.reruns = @ + 1]
    /\ UNCHANGED <<runs, nruns, ser, evi_events>>

\* A fresh session as setup_state leaves it, or a session whose first run
\* has pushed the response of its model call.
RerunInit ==
    \/ /\ LET fresh == setup_state(EmptySession) IN
          /\ demo_events = fresh["demo_events"]
          /\ evi_commands = fresh["evi_commands"]
          /\ evi_cursor = fresh["evi_cursor"]
          /\ worker_queue = fresh["worker_queue"]
          /\ worker_cursor = fresh["worker_cursor"]
          /\ worker_running = fresh["worker_running"]
       /\ runs = [r \in RunIds |-> NoRun]
       /\ nruns = 0
       /\ hist = NoHist
       /\ ser = NoCall
       /\ evi_events = <<>>
    \/ ApplyInit

RerunNext == SetupState \/ AddUserInput \/ Drain \/ WorkerFinish(1)

RerunSpec == RerunInit /\ [][RerunNext]_vars

\* ------------------------------------------------ properties of the engine
\* A run whose body has started holds its pending snapshot.
Started(r) == runs[r].pc \in {"running", "done"}

\* The 1-based log positions of run r's pending snapshot.
SnapshotPositions(r) ==
    IF Started(r)
    THEN (runs[r].cursor + 1)..(runs[r].cursor + Len(runs[r].pending))
    ELSE {}

\* The log position just past run r's pending snapshot.
SnapshotEnd(r) == runs[r].cursor + Len(runs[r].pending)

\* The owner is applying the 'finished' outcome at the head of the queue.
ApplyingFinished ==
    /\ worker_queue # <<>>
    /\ Head(worker_queue).type = "finished"
    /\ worker_queue' = Tail(worker_queue)

\* C1: events appended to the log while a run is in progress are never
\* skipped: when the run's 'finished' outcome is applied, worker_cursor does
\* not move past any log position outside that run's pending snapshot.
C1_NoEventSkipped ==
    [][ApplyingFinished =>
          worker_cursor' <= SnapshotEnd(Head(worker_queue).run)]_vars

\* C2: the 'finished' outcome of a run started with cursor c over a log of
\* length n at scheduling time carries cursor = c + len(pending) = n.
C2_FinishedCursorIsSnapshotEnd ==
    \A k \in DOMAIN worker_queue :
        worker_queue[k].type = "finished" =>
            /\ worker_queue[k].cursor = SnapshotEnd(worker_queue[k].run)
            /\ worker_queue[k].cursor = runs[worker_queue[k].run].sched_len

\* C3: 0 <= worker_cursor <= len(demo_events) in every state, and
\* worker_cursor never decreases.
C3_CursorBoundedMonotone ==
    /\ [](0 <= worker_cursor /\ worker_cursor <= Len(demo_events))
    /\ [][worker_cursor' >= worker_cursor]_vars

\* A second run has finished and moved the cursor further.
C3_Witness ==
    /\ nruns >= 2
    /\ runs[2].pc = "done"
    /\ ~worker_running
    /\ worker_cursor > runs[2].cursor
    /\ runs[2].cursor > 0

\* The run_worker tasks the background context holds that have not returned.
ActiveRuns == {r \in RunIds : runs[r].pc \in {"scheduled", "running"}}

\* C4: at most one worker run is active at any time; a task is handed to the
\* background context only when worker_running is false and worker_cursor <
\* len(demo_events), never while worker_running is true, and exactly one
\* task per change of worker_running from false to true.
C4_OneActiveRun ==
    /\ [](Cardinality(ActiveRuns) <= 1 /\ (ActiveRuns # {} => worker_running))
    /\ [][nruns' # nruns =>
            /\ ~worker_running /\ worker_running'
            /\ worker_cursor < Len(demo_events)
            /\ nruns' = nruns + 1
            /\ runs'[nruns'].pc = "scheduled"]_vars
    /\ [][(~worker_running /\ worker_running') => nruns' = nruns + 1]_vars

\* A second run is active with unprocessed entries in the log: a scheduling
\* attempt in this state does nothing.
C4_Witness ==
    /\ nruns = 2
    /\ ActiveRuns = {2}
    /\ worker_running
    /\ worker_cursor < Len(demo_events)

\* C5: every log position is handled by exactly one run: no position is in
\* the pending snapshot of two runs, and every position below worker_cursor
\* was in the pending snapshot of some run.
C5_EachPositionInOneRun ==
    /\ \A r1, r2 \in RunIds :
          r1 # r2 => SnapshotPositions(r1) \cap SnapshotPositions(r2) = {}
    /\ \A p \in 1..worker_cursor : \E r \in RunIds : p \in SnapshotPositions(r)

\* The outcomes run r pushed for snapshot step s.
PushedFor(r, s) ==
    {k \in DOMAIN runs[r].pushed : runs[r].pushed[k].step = s}

Actionable(event) == event.type \in {"user_input", "tool_use", "tool_result"}

NormalOutcome(event) ==
    IF event.type = "tool_use" THEN "tool_result" ELSE "anthropic_response"

\* Error events of the log recording a failure at log position p.
ErrorEventsFor(p) ==
    {k \in DOMAIN demo_events :
        demo_events[k].type = "error" /\ demo_events[k].error = p}

ErrorOutcomesFor(p) ==
    {k \in DOMAIN worker_queue :
        worker_queue[k].type = "error" /\ worker_queue[k].error = p}

RunFailedAt(r, s) ==
    \E k \in PushedFor(r, s) : runs[r].pushed[k].type = "error"

\* C6: a step that raises yields exactly one 'error' outcome for that step,
\* the run goes on and the other steps yield their normal outcome; the owner
\* appends exactly one Error event for the failed step; and the 'finished'
\* cursor of that run is the snapshot end whatever failed.
C6_StepFailureIsContained ==
    \A r \in RunIds : Started(r) =>
        /\ \A s \in 1..(runs[r].i - 1) :
              IF Actionable(runs[r].pending[s])
              THEN /\ Cardinality(PushedFor(r, s)) = 1
                   /\ \A k \in PushedFor(r, s) :
                         runs[r].pushed[k].type \in
                            {"error", NormalOutcome(runs[r].pending[s])}
              ELSE PushedFor(r, s) = {}
        /\ \A s \in 1..(runs[r].i - 1) :
              LET p == runs[r].cursor + s IN
              Cardinality(ErrorEventsFor(p)) + Cardinality(ErrorOutcomesFor(p))
                 = IF RunFailedAt(r, s) THEN 1 ELSE 0
        /\ \A k \in DOMAIN worker_queue :
              (worker_queue[k].type = "finished" /\ worker_queue[k].run = r
               /\ \E s \in 1..Len(runs[r].pending) : RunFailedAt(r, s))
                 => worker_queue[k].cursor = SnapshotEnd(r)

\* The 'finished' outcomes among those run r pushed.
PushedFinished(r) ==
    {k \in DOMAIN runs[r].pushed : runs[r].pushed[k].type = "finished"}

\* C7: every run_worker task that has ended has pushed exactly one
\* 'finished' outcome, as its last outcome, whatever failed (a failure while
\* setting up the run included).
C7_RunAlwaysFinishes ==
    \A r \in RunIds : runs[r].pc \in {"done", "crashed"} =>
        /\ Cardinality(PushedFinished(r)) = 1
        /\ runs[r].pushed[Len(runs[r].pushed)].type = "finished"

\* The log `old` is a prefix of the log `new`.
IsPrefix(old, new) ==
    /\ Len(old) <= Len(new)
    /\ SubSeq(new, 1, Len(old)) = old

\* C16: the log is append-only: every step (a State operation or the
\* application of an outcome) leaves the earlier log as a prefix of the new
\* one, so no entry is mutated, removed or reordered and the length never
\* decreases.
C16_LogAppendOnly ==
    [][IsPrefix(demo_events, demo_events')
       /\ Len(demo_events') >= Len(demo_events)]_vars

\* The log holds two user inputs, a tool_use, its tool_result and an error
\* event, all outcomes applied.
C16_Witness ==
    /\ Len(demo_events) = 5
    /\ CountType(demo_events, "user_input") = 2
    /\ CountType(demo_events, "tool_use") = 1
    /\ CountType(demo_events, "tool_result") = 1
    /\ CountType(demo_events, "error") = 1
    /\ worker_queue = <<>>

\* C17: a worker run never writes the log or the cursor: every step of
\* run_worker (the calls of phone_anthropic, with grouping, conversion and
\* the in-place image filter, included) leaves demo_events and worker_cursor
\* as they were; the log changes only when the owning thread appends input
\* or applies an outcome, the cursor only when it applies an outcome.
C17_WorkerNeverWrites ==
    [][/\ Worker => UNCHANGED <<demo_events, worker_cursor>>
       /\ demo_events' # demo_events => AddUserInput \/ Drain
       /\ worker_cursor' # worker_cursor => Drain]_vars

\* A run has serialized a log with a pending tool_use for a second model
\* call and has returned; the log still holds that tool_use and the cursor
\* is where it was when the run was scheduled.
C17_Witness ==
    \E r \in RunIds :
        /\ runs[r].pc = "done"
        /\ Len(runs[r].pending) = 2
        /\ \A s \in 1..2 :
              \E k \in PushedFor(r, s) :
                 runs[r].pushed[k].type = "anthropic_response"
        /\ worker_cursor = runs[r].cursor
        /\ CountType(demo_events, "tool_use") = 1
        /\ group_tool_messages(demo_events) # demo_events

\* The tool_result events of the log for a tool_use id, and the tool_result
\* outcomes for it that are still in the queue.
ResultEventsFor(id) ==
    {k \in DOMAIN demo_events :
        demo_events[k].type = "tool_result" /\ demo_events[k].tool_use_id = id}

ResultOutcomesFor(id) ==
    {k \in DOMAIN worker_queue :
        worker_queue[k].type = "tool_result" /\ worker_queue[k].tool_use_id = id}

\* The runs that have handled log position p (a run handles a position of
\* its pending snapshot once, in the iteration for it).
RunsHandling(p) ==
    {r \in RunIds : Started(r) /\ (p - runs[r].cursor) \in 1..(runs[r].i - 1)}

\* C18: for every tool_use event of the log there is at most one
\* tool_result event with its id (applied or still in the queue), at a
\* higher index than the tool_use, and the tool is invoked at most once for
\* it: at most one run has handled its position.
C18_AtMostOneResultPerToolUse ==
    \A p \in DOMAIN demo_events :
        demo_events[p].type = "tool_use" =>
            /\ Cardinality(ResultEventsFor(demo_events[p].id))
                  + Cardinality(ResultOutcomesFor(demo_events[p].id)) <= 1
            /\ \A k \in ResultEventsFor(demo_events[p].id) : k > p
            /\ Cardinality(RunsHandling(p)) <= 1
            /\ \A r \in RunsHandling(p) :
                  runs[r].pending[p - runs[r].cursor] = demo_events[p]

\* A tool_use produced in one run has been executed in a later one, its
\* tool_result is in the log and a run after that has finished too.
C18_Witness ==
    /\ \E p \in DOMAIN demo_events :
          /\ demo_events[p].type = "tool_use"
          /\ Cardinality(ResultEventsFor(demo_events[p].id)) = 1
          /\ Cardinality(RunsHandling(p)) = 1
    /\ nruns >= 3
    /\ ~worker_running
    /\ worker_cursor = Len(demo_events)

\* Run r has returned and the owner has applied every outcome it pushed,
\* its 'finished' included; no later run has been scheduled.
JustApplied(r) ==
    /\ nruns = r
    /\ runs[r].pc = "done"
    /\ worker_queue = <<>>

\* The session of the tool scenario: one user input, handled alone by the
\* first run, one tool_use block from the model and nothing else, no failure.
ToolScenario ==
    /\ hist.inputs = 1 /\ hist.fails = 0
    /\ hist.ids = 1 /\ hist.texts = 0
    /\ nruns >= 1
    /\ runs[1].pending = <<DemoEventUserInput(1)>>

\* C19: a tool_use produced by the model in one run is executed by a later
\* run: from log [user_input] and a response with one tool_use t1, the first
\* run leaves worker_cursor = 1 with the tool_use at index 1; the second run
\* invokes the tool for t1 once, a tool_result for t1 is appended and
\* worker_cursor is left at 2.
C19_ToolUseExecutedByNextRun ==
    ToolScenario =>
        /\ JustApplied(1) =>
              /\ worker_cursor = 1
              /\ Len(demo_events) = 2
              /\ demo_events[2].type = "tool_use"
        /\ JustApplied(2) =>
              /\ RunsHandling(2) = {2}
              /\ Len(demo_events) = 3
              /\ demo_events[3].type = "tool_result"
              /\ demo_events[3].tool_use_id = demo_events[2].id
              /\ worker_cursor = 2

\* The session of the text scenario: one user input, handled alone by the
\* first run, a model response of one text block, no failure.
TextScenario ==
    /\ hist.inputs = 1 /\ hist.fails = 0
    /\ hist.ids = 0 /\ hist.texts = 1
    /\ nruns >= 1
    /\ runs[1].pending = <<DemoEventUserInput(1)>>

\* C20: for a run over the snapshot [user_input] whose model response has
\* only text blocks, the run pushes exactly one 'anthropic_response', the
\* owner appends one assistant_output per text block and no tool_use, and
\* once the run's 'finished' is applied worker_cursor = 1 while the log
\* length is 2.
C20_TextOnlyRun ==
    (TextScenario /\ JustApplied(1)) =>
        /\ runs[1].pushed = << [type |-> "anthropic_response", step |-> 1],
                               [type |-> "finished", step |-> 0] >>
        /\ CountType(demo_events, "assistant_output") = hist.texts
        /\ CountType(demo_events, "tool_use") = 0
        /\ Len(demo_events) = 2
        /\ worker_cursor = 1

\* The texts of the assistant_output events of the log, in order, and the
\* messages of the sendAssistantInput commands, in order.
AssistantTexts ==
    LET outs == SelectSeq(demo_events, LAMBDA e : e.type = "assistant_output")
    IN [k \in DOMAIN outs |-> outs[k].text]

SpokenTexts ==
    LET cmds == SelectSeq(evi_commands, LAMBDA c : c.type = "sendAssistantInput")
    IN [k \in DOMAIN cmds |-> cmds[k].message]

QueuedBy(r) ==
    LET mine == SelectSeq(worker_queue, LAMBDA o : o.run = r)
    IN [k \in DOMAIN mine |-> [type |-> mine[k].type, step |-> mine[k].step]]

\* The last n entries of a sequence.
LastN(s, n) == SubSeq(s, Len(s) - n + 1, Len(s))

\* The owner is applying the outcome at the head of the queue.
Applying == worker_queue # <<>> /\ worker_queue' = Tail(worker_queue)

\* C23: within a run the snapshot events are handled in log order (the
\* steps of the outcomes it pushed increase, 'finished' last); the owner
\* observes a run's outcomes in the order they were pushed (those still
\* queued are the last ones pushed, in push order, and the oldest is applied
\* first); so when an outcome for snapshot step j is applied, its log events
\* go to the end of the log and every outcome of that run for a step i < j
\* has been applied already.
C23_OutcomesInSnapshotOrder ==
    /\ [](\A r \in RunIds :
            /\ \A k1, k2 \in DOMAIN runs[r].pushed :
                  (k1 < k2 /\ runs[r].pushed[k1].type # "finished") =>
                     \/ runs[r].pushed[k2].type = "finished"
                     \/ runs[r].pushed[k1].step < runs[r].pushed[k2].step
            /\ \A k \in DOMAIN runs[r].pushed :
                  runs[r].pushed[k].type = "finished" => k = Len(runs[r].pushed)
            /\ Len(QueuedBy(r)) <= Len(runs[r].pushed)
            /\ QueuedBy(r) = LastN(runs[r].pushed, Len(QueuedBy(r))))
    /\ [][Applying =>
            LET head == Head(worker_queue) IN
            /\ IsPrefix(demo_events, demo_events')
            /\ head.type # "finished" =>
                  /\ runs[head.run].i > head.step
                  /\ \A k \in DOMAIN worker_queue' :
                        worker_queue'[k].run = head.run =>
                           \/ worker_queue'[k].type = "finished"
                           \/ worker_queue'[k].step > head.step]_vars

\* A run over two snapshot events has pushed an outcome for each and its
\* 'finished', and the owner has applied all three.
C23_Witness ==
    \E r \in RunIds :
        /\ runs[r].pc = "done"
        /\ Len(runs[r].pending) = 2
        /\ Len(runs[r].pushed) = 3
        /\ worker_queue = <<>>
        /\ Len(demo_events) >= runs[r].cursor + 4

\* The model calls run r issued in the iteration for snapshot step s.
CallsFor(r, s) == {k \in DOMAIN runs[r].calls : runs[r].calls[k].step = s}

\* Run r is about to handle a snapshot event that needs no action.
AtResolvedEvent(r) ==
    /\ runs[r].pc = "running"
    /\ runs[r].i <= Len(runs[r].pending)
    /\ runs[r].pending[runs[r].i].type \in {"assistant_output", "error"}

\* C24: a run has called the model backend exactly once for each user_input
\* or tool_result event of its snapshot it has handled and never for a
\* tool_use, assistant_output or error event; an assistant_output or error
\* event yields no outcome, and its iteration only moves the run to the next
\* snapshot event.
C24_ModelCalledOncePerInput ==
    /\ [](\A r \in RunIds : Started(r) =>
            \A s \in DOMAIN runs[r].pending :
               /\ Cardinality(CallsFor(r, s))
                     = IF s < runs[r].i /\ runs[r].pending[s].type
                                             \in {"user_input", "tool_result"}
                       THEN 1 ELSE 0
               /\ runs[r].pending[s].type \in {"assistant_output", "error"}
                     => PushedFor(r, s) = {})
    /\ [][\A r \in RunIds :
            (AtResolvedEvent(r) /\ runs'[r] # runs[r]) =>
               /\ runs' = [runs EXCEPT ![r].i = @ + 1]
               /\ UNCHANGED <<demo_events, worker_queue, worker_cursor,
                              worker_running, evi_commands>>]_vars

\* A run over the snapshot [assistant_output, user_input] has returned: one
\* model call, for the second event, and nothing for the first.
C24_Witness ==
    \E r \in RunIds :
        /\ runs[r].pc = "done"
        /\ Len(runs[r].pending) = 2
        /\ runs[r].pending[1].type = "assistant_output"
        /\ runs[r].pending[2].type = "user_input"
        /\ Len(runs[r].calls) = 1
        /\ Len(runs[r].pushed) = 2

\* C25: the model request issued for the snapshot event at log position p
\* serializes exactly the log events up to and including p, whatever the
\* snapshot or the log holds after it.
C25_RequestThroughThisPoint ==
    \A r \in RunIds :
        \A k \in DOMAIN runs[r].calls :
            runs[r].calls[k].upto = runs[r].cursor + runs[r].calls[k].step

\* The runs whose pending snapshot holds log position p.
RunsHolding(p) == {r \in RunIds : p \in SnapshotPositions(r)}

\* C26: nothing is retried: when the handling of a snapshot event failed,
\* the run pushed the one 'error' outcome for it and nothing else, issued
\* no further model call for it, and no other run has that log position in
\* its snapshot or handles it.
C26_FailedStepNeverRetried ==
    \A r \in RunIds : Started(r) =>
        \A s \in DOMAIN runs[r].pending :
            RunFailedAt(r, s) =>
                /\ s < runs[r].i
                /\ Cardinality(PushedFor(r, s)) = 1
                /\ Cardinality(CallsFor(r, s)) <= 1
                /\ RunsHolding(runs[r].cursor + s) = {r}
                /\ RunsHandling(runs[r].cursor + s) = {r}

\* A step failed in the first run, its Error event is in the log, and two
\* later runs have returned.
C26_Witness ==
    /\ \E s \in DOMAIN runs[1].pending : RunFailedAt(1, s)
    /\ CountType(demo_events, "error") = 1
    /\ nruns >= 3
    /\ runs[3].pc = "done"
    /\ worker_queue = <<>>

\* The 1-based log positions of the tool_result events for a tool_use id
\* whose result carries an error.
FailedResultEventsFor(id) ==
    {k \in ResultEventsFor(id) : demo_events[k].result.error # 0}

Quiescent ==
    /\ ~worker_running
    /\ worker_queue = <<>>
    /\ worker_cursor = Len(demo_events)

\* C28: once no further user input arrives and the model returns responses
\* without tool_use blocks (both hold from some point on in every session
\* of the model), fair scheduling of the worker and of the owner's drain
\* leads to a state with worker_running false, the queue empty and
\* worker_cursor = len(demo_events), and the session stays there.
C28_Quiescence == <>[]Quiescent

\* C29: worker_cursor and worker_running change only when a 'finished'
\* outcome is applied: applying a 'tool_result', 'anthropic_response' or
\* 'error' outcome, or appending user input, leaves both unchanged (an
\* 'error' outcome does not end the run); the cursor moves and the running
\* flag is cleared in no other step than the application of a 'finished'.
C29_OnlyFinishedMovesCursor ==
    [][/\ (Applying /\ Head(worker_queue).type # "finished")
            => UNCHANGED <<worker_cursor, worker_running>>
       /\ Len(demo_events') > Len(demo_events)
            => UNCHANGED <<worker_cursor, worker_running>>
       /\ worker_cursor' # worker_cursor => ApplyingFinished
       /\ (worker_running /\ ~worker_running') => ApplyingFinished]_vars

\* The owner has applied an 'anthropic_response' and an 'error' outcome of
\* a run that has not pushed its 'finished' yet: the run is still marked
\* running and the cursor is where it was.
C29_Witness ==
    /\ nruns = 1
    /\ runs[1].pc = "running"
    /\ Len(runs[1].pushed) = 2
    /\ worker_queue = <<>>
    /\ CountType(demo_events, "error") = 1
    /\ CountType(demo_events, "assistant_output") = 1
    /\ worker_running
    /\ worker_cursor = 0

\* C31: when the 'finished' outcome of a run is applied the queue holds no
\* further outcome of that run; whenever worker_running is false the queue
\* is empty; and every outcome that is applied belongs to the run scheduled
\* last, so none of run N is applied after run N+1 has been scheduled.
C31_QueueEmptyWhenIdle ==
    /\ [](~worker_running => worker_queue = <<>>)
    /\ [][ApplyingFinished =>
            \A k \in DOMAIN worker_queue' :
               worker_queue'[k].run # Head(worker_queue).run]_vars
    /\ [][Applying => Head(worker_queue).run = nruns]_vars

\* The first run pushed two outcomes and its 'finished'; all three are
\* applied, the session is idle and no second run has been scheduled yet.
C31_Witness ==
    /\ nruns = 1
    /\ runs[1].pc = "done"
    /\ Len(runs[1].pushed) = 3
    /\ ~worker_running
    /\ worker_queue = <<>>

\* The snapshot steps of run r whose event is a user_input, a tool_use or a
\* tool_result.
ActionableSteps(r) ==
    {s \in DOMAIN runs[r].pending : Actionable(runs[r].pending[s])}

\* C33: a run pushes exactly one outcome for each user_input, tool_use or
\* tool_result event of its snapshot it has handled (the normal outcome of
\* that event or an 'error'), none for an assistant_output or error event,
\* and a run that has ended has pushed one 'finished' after them: its
\* outcomes number the actionable snapshot events plus one.
C33_OneOutcomePerActionableEvent ==
    \A r \in RunIds :
        /\ Started(r) =>
              \A s \in 1..(runs[r].i - 1) :
                 /\ Cardinality(PushedFor(r, s))
                       = IF s \in ActionableSteps(r) THEN 1 ELSE 0
                 /\ \A k \in PushedFor(r, s) :
                       runs[r].pushed[k].type
                          \in {"error", NormalOutcome(runs[r].pending[s])}
        /\ runs[r].pc \in {"done", "crashed"} =>
              /\ Cardinality(PushedFinished(r)) = 1
              /\ Len(runs[r].pushed) = Cardinality(ActionableSteps(r)) + 1

\* The tool_use events a model context built from the log would hold.
ContextToolUses ==
    LET sent == group_tool_messages(demo_events)
    IN {sent[k].id : k \in {j \in DOMAIN sent : sent[j].type = "tool_use"}}

\* C34: once the queue is drained every tool_use event below worker_cursor
\* is accounted for: the log holds, at a higher position, a tool_result with
\* its id or an Error event recording its failure; and a tool_use whose
\* invocation failed with an Error event has no tool_result and is in no
\* model context built from the log.
C34_ToolUseAccountedFor ==
    worker_queue = <<>> =>
        \A p \in 1..worker_cursor :
            demo_events[p].type = "tool_use" =>
                /\ \/ \E k \in ResultEventsFor(demo_events[p].id) : k > p
                   \/ \E k \in ErrorEventsFor(p) : k > p
                /\ ErrorEventsFor(p) # {} =>
                      /\ ResultEventsFor(demo_events[p].id) = {}
                      /\ demo_events[p].id \notin ContextToolUses

\* -------------------------------------------- properties of the serializer
\* The blocks of a message list, in order, each with the index of its turn.
RECURSIVE TurnBlocks(_, _)
TurnBlocks(messages, m) ==
    IF m > Len(messages) THEN <<>>
    ELSE [k \in DOMAIN messages[m].content |->
             [turn |-> m, role |-> messages[m].role, block |-> messages[m].content[k]]]
         \o TurnBlocks(messages, m + 1)

SentBlocks == TurnBlocks(ser.messages, 1)

\* The input has a tool_result event for the id.
Resolved(id) ==
    \E j \in DOMAIN ser.events :
        ser.events[j].type = "tool_result" /\ ser.events[j].tool_use_id = id

TurnHas(m, ty) ==
    \E k \in DOMAIN ser.messages[m].content : ser.messages[m].content[k].type = ty

\* C8: a tool_use event whose id has no tool_result event in the sequence
\* leaves no tool_use block for that id in the serialized message list.
C8_OrphanToolUseSuppressed ==
    ser.pc = "sent" =>
        \A k \in DOMAIN ser.events :
            (ser.events[k].type = "tool_use" /\ ~Resolved(ser.events[k].id)) =>
                \A b \in DOMAIN SentBlocks :
                    ~(SentBlocks[b].block.type = "tool_use"
                      /\ SentBlocks[b].block.id = ser.events[k].id)

\* An input with a pending tool_use and a resolved one has been serialized.
C8_Witness ==
    /\ ser.pc = "sent"
    /\ \E k \in DOMAIN ser.events :
          ser.events[k].type = "tool_use" /\ ~Resolved(ser.events[k].id)
    /\ \E b \in DOMAIN SentBlocks : SentBlocks[b].block.type = "tool_use"

\* C9: each assistant turn carrying a tool_use block with id X is immediately
\* followed by a user turn carrying a tool_result block for X, and every
\* tool_result block immediately follows the turn of the tool_use it resolves.
C9_ToolUseImmediatelyResolved ==
    ser.pc = "sent" =>
        \A b \in DOMAIN SentBlocks :
            LET sb == SentBlocks[b] IN
            /\ sb.block.type = "tool_use" =>
                  /\ sb.role = "assistant"
                  /\ sb.turn < Len(ser.messages)
                  /\ ser.messages[sb.turn + 1].role = "user"
                  /\ \E k \in DOMAIN ser.messages[sb.turn + 1].content :
                        LET c == ser.messages[sb.turn + 1].content[k] IN
                        c.type = "tool_result" /\ c.tool_use_id = sb.block.id
            /\ sb.block.type = "tool_result" =>
                  /\ sb.role = "user"
                  /\ sb.turn > 1
                  /\ ser.messages[sb.turn - 1].role = "assistant"
                  /\ \E k \in DOMAIN ser.messages[sb.turn - 1].content :
                        LET c == ser.messages[sb.turn - 1].content[k] IN
                        c.type = "tool_use" /\ c.id = sb.block.tool_use_id

\* An input whose tool_result does not directly follow its tool_use in the
\* log (it comes before it, or after another event) has been serialized.
C9_Witness ==
    /\ ser.pc = "sent"
    /\ \E k \in DOMAIN ser.events :
          /\ ser.events[k].type = "tool_use"
          /\ Resolved(ser.events[k].id)
          /\ k < Len(ser.events)
          /\ ser.events[k + 1].type # "tool_result"
    /\ ser.events[1].type = "tool_result"
    /\ \E b \in DOMAIN SentBlocks : SentBlocks[b].block.type = "tool_result"

\* Two consecutive resolved tool_use events at k and k + 1 of the input.
ConsecutiveResolved(k) ==
    /\ k < Len(ser.events)
    /\ ser.events[k].type = "tool_use" /\ Resolved(ser.events[k].id)
    /\ ser.events[k + 1].type = "tool_use" /\ Resolved(ser.events[k + 1].id)

NoAdjacentSameKind ==
    \A m \in 1..(Len(ser.messages) - 1) :
        /\ ~(TurnHas(m, "tool_use") /\ TurnHas(m + 1, "tool_use"))
        /\ ~(TurnHas(m, "tool_result") /\ TurnHas(m + 1, "tool_result"))

WithoutErrors(events) == SelectSeq(events, LAMBDA e : e.type # "error")

\* C11: error events never reach the model: the serialized message list has
\* no turn derived from an error event (it has one turn per grouped event
\* that is not an error, and no None), and it is the list serialized for
\* the same sequence with all error events deleted.
C11_ErrorsNeverSerialized ==
    ser.pc = "sent" =>
        /\ \A m \in DOMAIN ser.messages :
              /\ ser.messages[m] # NoneMessage
              /\ ser.messages[m].role \in {"user", "assistant"}
        /\ Len(ser.messages) =
              Len(group_tool_messages(ser.events)) - CountType(ser.events, "error")
        /\ ser.messages =
              RequestMessages(WithoutErrors(ser.events), ser.keep, ser.chunk)

\* A sequence with an error event between two other events, one of them a
\* resolved tool_use, has been serialized.
C11_Witness ==
    /\ ser.pc = "sent"
    /\ \E k \in DOMAIN ser.events :
          /\ ser.events[k].type = "error"
          /\ 1 < k /\ k < Len(ser.events)
    /\ \E b \in DOMAIN SentBlocks : SentBlocks[b].block.type = "tool_result"
    /\ Len(ser.messages) = 2

RECURSIVE ContentImages(_)
ContentImages(content) ==
    IF content = <<>> THEN <<>>
    ELSE (IF Head(content).type = "image" THEN <<Head(content).data>> ELSE <<>>)
         \o ContentImages(Tail(content))

RECURSIVE BlocksImages(_)
BlocksImages(blocks) ==
    IF blocks = <<>> THEN <<>>
    ELSE (IF Head(blocks).type = "tool_result" /\ ~Head(blocks).is_str
          THEN ContentImages(Head(blocks).content) ELSE <<>>)
         \o BlocksImages(Tail(blocks))

RECURSIVE ResultImages(_)
ResultImages(messages) ==
    IF messages = <<>> THEN <<>>
    ELSE BlocksImages(Head(messages).content) \o ResultImages(Tail(messages))

PruneTotal == Len(ResultImages(ser.before))

PruneRemoved == Len(ResultImages(ser.before)) - Len(ResultImages(ser.messages))

\* A filter call with an image cap below the number of images.
PruneOverCap == ser.pc = "filtered" /\ ser.keep # None /\ PruneTotal > ser.keep

\* C13: with total > K image sub-blocks, the filter removes exactly
\* (total - K) - ((total - K) mod C) images: a non-negative multiple of C
\* that does not exceed total - K, so at least K images remain.
C13_RemovedIsRoundedExcess ==
    PruneOverCap =>
        /\ PruneRemoved =
              (PruneTotal - ser.keep) - ((PruneTotal - ser.keep) % ser.chunk)
        /\ PruneRemoved >= 0
        /\ PruneRemoved % ser.chunk = 0
        /\ PruneRemoved <= PruneTotal - ser.keep
        /\ Len(ResultImages(ser.messages)) >= ser.keep

\* Five images, cap 2, chunk 2: the excess 3 is rounded down to 2 and three
\* images remain.
C13_Witness ==
    /\ PruneOverCap
    /\ PruneTotal = 5 /\ ser.keep = 2 /\ ser.chunk = 2
    /\ PruneRemoved = 2

\* C14: the filter removes oldest-first: the images left are the images of
\* the input without its first toRemove ones (turn order, then sub-block
\* order), every image left is later than every image removed, and with
\* total = 23, K = 10, C = 10 the count to remove is 10 (13 are left).
C14_OldestFirst ==
    /\ ImagesToRemove(23, 10, MinRemovalThreshold) = 10
    /\ ser.pc = "filtered" =>
          LET before == ResultImages(ser.before)
              after == ResultImages(ser.messages)
              removed == Len(before) - Len(after)
          IN /\ after = SubSeq(before, removed + 1, Len(before))
             /\ \A i \in 1..removed : \A j \in DOMAIN after : before[i] < after[j]
             /\ PruneOverCap =>
                   removed = (PruneTotal - ser.keep)
                                - ((PruneTotal - ser.keep) % ser.chunk)

\* Five images in three turns, cap 1, chunk 3: the three oldest are removed,
\* one of them from a turn that keeps its second image.
C14_Witness ==
    /\ PruneOverCap
    /\ PruneTotal = 5 /\ ser.keep = 1 /\ ser.chunk = 3
    /\ PruneRemoved = 3
    /\ Len(ser.before) = 3
    /\ Len(ResultImages(<<ser.before[1]>>)) = 2
    /\ Len(ResultImages(<<ser.before[2]>>)) = 2
    /\ Len(ResultImages(<<ser.messages[2]>>)) = 1

\* A content list without its image sub-blocks.
NonImages(content) == SelectSeq(content, LAMBDA c : c.type # "image")

\* A message list with the image sub-blocks of its tool_result blocks left
\* out: the turns, their roles, their blocks and every other sub-block, in
\* order.
Skeleton(messages) ==
    [m \in DOMAIN messages |->
        [role |-> messages[m].role,
         content |->
            [b \in DOMAIN messages[m].content |->
                LET block == messages[m].content[b] IN
                IF block.type = "tool_result" /\ ~block.is_str
                THEN [block EXCEPT !.content = NonImages(@)]
                ELSE block]]]

\* C15: the filter changes nothing but image sub-blocks inside tool_result
\* blocks: the turns, the blocks of each turn (tool_result blocks included),
\* every non-image sub-block and every block outside a tool_result are the
\* same, in the same order, before and after.
C15_OnlyImagesChange ==
    ser.pc = "filtered" =>
        /\ Len(ser.messages) = Len(ser.before)
        /\ \A m \in DOMAIN ser.before :
              Len(ser.messages[m].content) = Len(ser.before[m].content)
        /\ Skeleton(ser.messages) = Skeleton(ser.before)

\* A filter call that emptied one tool_result block of its only image, took
\* the first image of another with a text sub-block, and left a top-level
\* image block alone.
C15_Witness ==
    /\ ser.pc = "filtered"
    /\ ser.messages # ser.before
    /\ \E m \in DOMAIN ser.before :
          \E b \in DOMAIN ser.before[m].content :
             /\ ser.before[m].content[b].type = "tool_result"
             /\ ser.before[m].content[b].content # <<>>
             /\ ser.messages[m].content[b].content = <<>>
    /\ \E m \in DOMAIN ser.before :
          \E b \in DOMAIN ser.before[m].content :
             /\ ser.before[m].content[b].type = "tool_result"
             /\ Len(ser.before[m].content[b].content) = 3
             /\ Len(ser.messages[m].content[b].content) = 2
    /\ \E m \in DOMAIN ser.messages : ser.messages[m].content[1].type = "image"

\* ------------------------------------------ properties of the voice chat
\* The user_input events of the log carrying the text of an utterance.
InputsWithText(tx) ==
    {k \in DOMAIN demo_events :
        demo_events[k].type = "user_input" /\ demo_events[k].text = tx}

IsUtterance(e) == e.type = "message" /\ e.role = "user_message"

\* C21: each inbound user utterance is appended to the log as a user_input
\* exactly once across any number of renders: the inbound cursor is past
\* every consumed inbound event, an utterance below the cursor is in the log
\* once and one at or above it is not in the log, so a render that sees the
\* same inbound list appends nothing.
C21_UtteranceAppendedOnce ==
    /\ evi_cursor <= Len(evi_events)
    /\ \A k \in DOMAIN evi_events :
          IsUtterance(evi_events[k]) =>
             Cardinality(InputsWithText(evi_events[k].content))
                = IF k <= evi_cursor THEN 1 ELSE 0
\* The render step has consumed the inbound events.
Rendering == hist.renders' = hist.renders + 1

\* C30: the two cursors are independent: applying a worker outcome leaves
\* evi_cursor unchanged, a render that consumes inbound voice events leaves
\* worker_cursor unchanged, and neither cursor ever decreases.
C30_CursorsIndependent ==
    [][/\ Applying => evi_cursor' = evi_cursor
       /\ Rendering => worker_cursor' = worker_cursor
       /\ worker_cursor' >= worker_cursor
       /\ evi_cursor' >= evi_cursor]_vars

\* An inbound utterance has been consumed by a render and a run's outcomes,
\* its 'finished' included, have been applied: worker_cursor has moved.
C30_Witness ==
    /\ hist.renders >= 1
    /\ \E k \in DOMAIN evi_events :
          /\ IsUtterance(evi_events[k])
          /\ InputsWithText(evi_events[k].content) # {}
    /\ worker_queue = <<>>
    /\ ~worker_running
    /\ worker_cursor >= 1

\* ------------------------------------ more properties of the serializer
\* The blocks of the message list as converted, before the image filter.
BeforeBlocks == TurnBlocks(ser.before, 1)

\* The positions of the tool_use events and of the tool_result events of
\* the input for an id, and the emitted tool_use blocks for it.
ToolUsesOf(id) ==
    {k \in DOMAIN ser.events :
        ser.events[k].type = "tool_use" /\ ser.events[k].id = id}

ResultsOf(id) ==
    {k \in DOMAIN ser.events :
        ser.events[k].type = "tool_result" /\ ser.events[k].tool_use_id = id}

EmittedToolUses(id) ==
    {b \in DOMAIN SentBlocks :
        SentBlocks[b].block.type = "tool_use" /\ SentBlocks[b].block.id = id}

\* The last position of a non-empty set of positions.
LastOf(S) == CHOOSE k \in S : \A j \in S : j <= k

SerIds == {ser.events[k].id : k \in {j \in DOMAIN ser.events : ser.events[j].type = "tool_use"}}

TranscriptEvents ==
    SelectSeq(ser.events, LAMBDA e : e.type \in {"user_input", "assistant_output"})

TranscriptTurn(e) ==
    [role |-> IF e.type = "user_input" THEN "user" ELSE "assistant",
     content |-> <<TextBlockParam(e.text)>>]

\* The turns of the serialized list that carry a text block.
TextTurns ==
    SelectSeq(ser.messages,
              LAMBDA m : \E c \in DOMAIN m.content : m.content[c].type = "text")

ResolvedToolUses ==
    {k \in DOMAIN ser.events :
        ser.events[k].type = "tool_use" /\ Resolved(ser.events[k].id)}

C36_NoRemovalBelowChunk ==
    ser.pc = "filtered" =>
        ((\/ ser.keep = None
          \/ PruneTotal <= ser.keep
          \/ PruneTotal - ser.keep < ser.chunk)
            => ser.messages = ser.before)

\* The filter has run on a list with fewer images than K, the difference
\* not a multiple of the chunk.
C36_Witness ==
    /\ ser.pc = "filtered"
    /\ ser.keep # None
    /\ PruneTotal >= 1
    /\ PruneTotal < ser.keep
    /\ (PruneTotal - ser.keep) % ser.chunk # 0

\* ------------------------------------ properties of the outcome handler
\* The log event a content block is to yield.
BlockEvent(b) ==
    IF b.type = "text" THEN DemoEventAssistantOutput(b.text)
    ELSE DemoEventToolUse(b.id, b.name, b.input)

\* C37: applying an 'anthropic_response' outcome appends to the log one
\* event per content block, in the order of the blocks and as one
\* contiguous run at the end of the log: an assistant_output with the text
\* of a text block, a tool_use with the id, name and input of a tool_use
\* block.
C37_ResponseBlocksAppendedInOrder ==
    [][(Applying /\ Head(worker_queue).type = "anthropic_response") =>
          LET blocks == Head(worker_queue).response IN
          demo_events' =
             demo_events \o [k \in DOMAIN blocks |-> BlockEvent(blocks[k])]]_vars

\* A response of three blocks, a tool_use between two texts, has been
\* applied after the user's second input.
C37_Witness ==
    /\ worker_queue = <<>>
    /\ Len(demo_events) = 5
    /\ demo_events[2].type = "user_input"
    /\ demo_events[3] = DemoEventAssistantOutput(1)
    /\ demo_events[4] = DemoEventToolUse(1, "bash", 1)
    /\ demo_events[5] = DemoEventAssistantOutput(2)

\* ----------------------------------------- properties of the set-up step
\* The render loop has been entered again in this step.
Rerunning == hist.reruns' = hist.reruns + 1

\* C38: re-entering the render loop never resets session state:
\* State.setup_state on an initialised session leaves demo_events,
\* worker_cursor, worker_running, worker_queue, evi_cursor and evi_commands
\* as they are, so the outcomes of a run in flight stay on the queue and
\* the cursor is not set back to 0; applying it twice is applying it once.
C38_SetupStateIdempotent ==
    /\ [][Rerunning =>
            UNCHANGED <<demo_events, worker_cursor, worker_running,
                        worker_queue, evi_cursor, evi_commands>>]_vars
    /\ [](setup_state(setup_state(Session)) = setup_state(Session)
          /\ setup_state(Session) = Session)
    /\ [][worker_cursor' >= worker_cursor]_vars

\* The render loop has been entered again twice, once with the outcomes of
\* the run in flight still queued and once after its 'finished' moved the
\* cursor.
C38_Witness ==
    /\ hist.reruns = 2
    /\ runs[1].pc = "done"
    /\ worker_queue = <<>>
    /\ worker_cursor >= 1
    /\ Len(demo_events) >= 3
    /\ Len(evi_commands) >= 1

====
